---- MODULE Spec2Model ----
(***************************************************************************)
(* Tangle detection over the LLTC4J dataset: list_tangled_commits.py and   *)
(* list_tangled_lines.py.                                                  *)
(*                                                                         *)
(* Python values are modelled as strings where a variable may hold values  *)
(* of several Python types: None is "None", True is "True", False is       *)
(* "False".  A call's outcome is a record whose kind is "return" or        *)
(* "raise".                                                                *)
(***************************************************************************)
EXTENDS Integers, Sequences, FiniteSets, TLC

VARIABLES
    pc,            \* position of the running function
    tangle_func,   \* the detector in use, by name
    hunk,          \* the hunk in which the detector ended (returned True or raised)
    result,        \* the value returned
    report,        \* what has_tangled_lines printed about the conflict
    overlap,       \* history: some scanned hunk lists one offset under two labels
    mixed,         \* history: some scanned hunk has a fix and a no-fix code label
    keys_seen,     \* history: the labels that were keys of the hunks has_tangled_hunks scanned
    owners0        \* history: the labels under which the hunks has_tangled_lines scanned listed offset 0

VARIABLES
    commit,        \* is_commit_tangled / is_tangled: the commit passed in
    fa,            \* the file action the cursor yielded last
    file,          \* is_commit_tangled: id of the file get_changed_file returned
    pc2,           \* list_tangled_lines.is_tangled: its position
    file2,         \* list_tangled_lines.is_tangled: id of the file it resolved
    result2,       \* list_tangled_lines.is_tangled: the value returned
    scope_seen,    \* history: some file action yielded so far has an in-scope changed file
    first_hunks,   \* history: the hunks of the first such file action
    agree          \* history: both scripts resolve and classify alike every file action yielded so far

varsDetector == <<pc, tangle_func, hunk, result, report, overlap, mixed, keys_seen, owners0>>

VARIABLES
    entry,            \* how the run was started: "main" or "find_tangled_commits"
    granularity,      \* the tangle_granularity argument
    connected,        \* connect_to_db() has been called
    accessed,         \* a query has been sent to the dataset
    project,          \* name of the project the outer loop is at
    nprojects,        \* number of projects the cursor has yielded
    ncommits,         \* number of commits the cursors have yielded
    tangled_commits,  \* find_tangled_commits: the list it builds
    output,           \* the lines main printed
    enumerated        \* history: every commit yielded, with what is_commit_tangled returned

varsCommit == <<commit, fa, file, pc2, file2, result2, scope_seen, first_hunks, agree>>

varsRun == <<entry, granularity, connected, accessed, project, nprojects, ncommits,
             tangled_commits, output, enumerated>>

vars == <<varsDetector, varsCommit, varsRun>>

(***************************************************************************)
(* Bounds of the model.                                                    *)
(***************************************************************************)
MaxOffset == 1

(***************************************************************************)
(* Python values.                                                          *)
(***************************************************************************)
None == "None"
PyTrue == "True"
PyFalse == "False"

Truthy(v) == v \notin {None, PyFalse, ""}

(***************************************************************************)
(* The label sets imported from export_lltc4j.                             *)
(***************************************************************************)
LINE_LABELS_CODE_FIX == {"bugfix"}
LINE_LABELS_CODE_NO_FIX == {"refactoring"}
LINE_LABELS_CODE == LINE_LABELS_CODE_FIX \cup LINE_LABELS_CODE_NO_FIX

ChangeLabels == {"bugfix", "refactoring", "documentation"}

(***************************************************************************)
(* str.splitlines() over the characters a hunk's content is made of here:  *)
(* a line ends at "\n"; a trailing unterminated fragment is a line unless  *)
(* it is empty.                                                            *)
(***************************************************************************)
RECURSIVE SplitAcc(_, _, _, _)
SplitAcc(s, i, cur, acc) ==
    IF i > Len(s)
    THEN IF cur = "" THEN acc ELSE Append(acc, cur)
    ELSE IF SubSeq(s, i, i) = "\n"
         THEN SplitAcc(s, i + 1, "", Append(acc, cur))
         ELSE SplitAcc(s, i + 1, cur \o SubSeq(s, i, i), acc)

splitlines(s) == SplitAcc(s, 1, "", <<>>)

(***************************************************************************)
(* defaultlist(): a list that grows, filled with None, to hold any index   *)
(* that is read or written.  Python index i is TLA+ index i + 1.           *)
(***************************************************************************)
DLFill(dl, i) ==
    IF i < Len(dl) THEN dl ELSE dl \o [k \in 1..(i + 1 - Len(dl)) |-> None]

DLGet(dl, i) == DLFill(dl, i)[i + 1]

DLSet(dl, i, v) == [DLFill(dl, i) EXCEPT ![i + 1] = v]

(***************************************************************************)
(* The inputs: hunks as the dataset holds them.  lines_verified is a dict: *)
(* a sequence of <<label, offsets>> items in iteration order, no label     *)
(* twice; a label's offsets are a list without repetition, ascending.      *)
(***************************************************************************)
Offsets == 0..MaxOffset

RECURSIVE Ascending(_, _)
Ascending(S, from) ==
    IF \A i \in S : i < from
    THEN <<>>
    ELSE LET m == CHOOSE i \in S : i >= from /\ \A j \in S : j >= from => i <= j
         IN <<m>> \o Ascending(S, m + 1)

OffsetLists == {Ascending(S, 0) : S \in SUBSET Offsets}

LabelOrders ==
    {ls \in UNION {[1..k -> ChangeLabels] : k \in 0..Cardinality(ChangeLabels)} :
        \A i \in 1..Len(ls), j \in 1..Len(ls) : ls[i] = ls[j] => i = j}

LinesVerified ==
    UNION {{[k \in 1..Len(ls) |-> <<ls[k], f[k]>>] : f \in [1..Len(ls) -> OffsetLists]}
           : ls \in LabelOrders}

Contents == {"a\n", "a\nb"}

Hunks == [content : Contents, lines_verified : LinesVerified]

Keys(lv) == {lv[k][1] : k \in 1..Len(lv)}

ListedUnder(lv, label) ==
    UNION {{lv[k][2][j] : j \in 1..Len(lv[k][2])} : k \in {k \in 1..Len(lv) : lv[k][1] = label}}

NoHunk == [content |-> "", lines_verified |-> <<>>]

NoReport == [offset |-> -1, line |-> None, first |-> None, second |-> None]

(***************************************************************************)
(* list_tangled_commits.has_tangled_lines, the body of `for hunk in        *)
(* hunks`.  Its result is [kind, line_labels, report]: kind "next" when    *)
(* the loops run to their end, "return" at `return True`, "raise" when     *)
(* hunk_content_by_line[i] is out of range (IndexError, raised while the   *)
(* first message is formatted, so nothing is printed).                     *)
(***************************************************************************)
RECURSIVE ScanOffsets(_, _, _, _)
ScanOffsets(label, offset_line_numbers, ll, hunk_content_by_line) ==
    IF offset_line_numbers = <<>>
    THEN [kind |-> "next", line_labels |-> ll, report |-> NoReport]
    ELSE LET i == Head(offset_line_numbers)
             read == DLFill(ll, i)
         IN IF Truthy(DLGet(ll, i))
            THEN IF i >= Len(hunk_content_by_line)
                 THEN [kind |-> "raise", line_labels |-> read, report |-> NoReport]
                 ELSE [kind |-> "return", line_labels |-> read,
                       report |-> [offset |-> i, line |-> hunk_content_by_line[i + 1],
                                   first |-> DLGet(ll, i), second |-> label]]
            ELSE ScanOffsets(label, Tail(offset_line_numbers), DLSet(ll, i, label),
                             hunk_content_by_line)

RECURSIVE ScanItems(_, _, _)
ScanItems(items, ll, hunk_content_by_line) ==
    IF items = <<>>
    THEN [kind |-> "next", line_labels |-> ll, report |-> NoReport]
    ELSE LET r == ScanOffsets(Head(items)[1], Head(items)[2], ll, hunk_content_by_line)
         IN IF r.kind = "next"
            THEN ScanItems(Tail(items), r.line_labels, hunk_content_by_line)
            ELSE r

\* A variant that tests the list itself (`if line_labels:`), not its entry i.
RECURSIVE ScanItemsAnyOwner(_, _)
ScanItemsAnyOwner(items, ll) ==
    IF items = <<>>
    THEN [kind |-> "next", line_labels |-> ll, report |-> NoReport]
    ELSE IF Head(items)[2] = <<>>
         THEN ScanItemsAnyOwner(Tail(items), ll)
         ELSE IF ll # <<>> \/ Len(Head(items)[2]) > 1
              THEN [kind |-> "return", line_labels |-> ll, report |-> NoReport]
              ELSE ScanItemsAnyOwner(Tail(items), DLSet(ll, Head(items)[2][1], Head(items)[1]))

LinesBodyAnyOwner(h) == ScanItemsAnyOwner(h.lines_verified, <<>>)

LinesBody(h) == ScanItems(h.lines_verified, <<>>, splitlines(h.content))

(***************************************************************************)
(* list_tangled_lines.has_tangled_lines, the body of its loop: it prints   *)
(* line_labels[i] (a read, which grows the list) before the same test.     *)
(***************************************************************************)
RECURSIVE ScanOffsets2(_, _, _, _)
ScanOffsets2(label, offset_line_numbers, ll, hunk_content_by_line) ==
    IF offset_line_numbers = <<>>
    THEN [kind |-> "next", line_labels |-> ll, report |-> NoReport]
    ELSE LET i == Head(offset_line_numbers)
             printed == DLFill(ll, i)
         IN IF Truthy(DLGet(printed, i))
            THEN IF i >= Len(hunk_content_by_line)
                 THEN [kind |-> "raise", line_labels |-> printed, report |-> NoReport]
                 ELSE [kind |-> "return", line_labels |-> printed,
                       report |-> [offset |-> i, line |-> hunk_content_by_line[i + 1],
                                   first |-> DLGet(printed, i), second |-> label]]
            ELSE ScanOffsets2(label, Tail(offset_line_numbers), DLSet(printed, i, label),
                              hunk_content_by_line)

RECURSIVE ScanItems2(_, _, _)
ScanItems2(items, ll, hunk_content_by_line) ==
    IF items = <<>>
    THEN [kind |-> "next", line_labels |-> ll, report |-> NoReport]
    ELSE LET r == ScanOffsets2(Head(items)[1], Head(items)[2], ll, hunk_content_by_line)
         IN IF r.kind = "next"
            THEN ScanItems2(Tail(items), r.line_labels, hunk_content_by_line)
            ELSE r

LinesBody2(h) == ScanItems2(h.lines_verified, <<>>, splitlines(h.content))

(***************************************************************************)
(* list_tangled_commits.has_tangled_hunks, the body of `for hunk in        *)
(* hunks`: [kind, seen_labels], kind "return" at `return True`.            *)
(***************************************************************************)
RECURSIVE ScanLabels(_, _)
ScanLabels(items, seen) ==
    IF items = <<>>
    THEN [kind |-> "next", seen_labels |-> seen]
    ELSE LET label == Head(items)[1]
         IN IF label \notin LINE_LABELS_CODE
            THEN ScanLabels(Tail(items), seen)
            ELSE LET added == IF label \in LINE_LABELS_CODE_FIX
                              THEN seen \cup {"fix"}
                              ELSE IF label \in LINE_LABELS_CODE_NO_FIX
                                   THEN seen \cup {"nofix"}
                                   ELSE seen
                 IN IF Cardinality(added) = 2
                    THEN [kind |-> "return", seen_labels |-> added]
                    ELSE ScanLabels(Tail(items), added)

\* A variant without the LINE_LABELS_CODE test, counting every other label as no-fix.
HunksBodyAllLabels(h) ==
    LET cats == {IF a \in LINE_LABELS_CODE_FIX THEN "fix" ELSE "nofix" : a \in Keys(h.lines_verified)}
    IN [kind |-> IF Cardinality(cats) = 2 THEN "return" ELSE "next", seen_labels |-> cats]

HunksBody(h) == ScanLabels(h.lines_verified, {})

(***************************************************************************)
(* What the claims speak of, stated on the input alone.                    *)
(***************************************************************************)
Overlapping(lv) ==
    \E a \in Keys(lv), b \in Keys(lv) :
        a # b /\ ListedUnder(lv, a) \cap ListedUnder(lv, b) # {}

Mixed(lv) ==
    /\ Keys(lv) \cap LINE_LABELS_CODE_FIX # {}
    /\ Keys(lv) \cap LINE_LABELS_CODE_NO_FIX # {}

(***************************************************************************)
(* The detectors as functions of a whole list of hunks: the loop over the  *)
(* bodies above.  The result is [kind, value]: kind "return" with the      *)
(* value returned, or kind "raise" with the exception.                     *)
(***************************************************************************)
Return(v) == [kind |-> "return", value |-> v]
Raise(e) == [kind |-> "raise", value |-> e]

RECURSIVE has_tangled_lines(_)
has_tangled_lines(hunks) ==
    IF hunks = <<>>
    THEN Return(PyFalse)
    ELSE LET r == LinesBody(Head(hunks))
         IN CASE r.kind = "return" -> Return(PyTrue)
              [] r.kind = "raise" -> Raise("IndexError")
              [] r.kind = "next" -> has_tangled_lines(Tail(hunks))

RECURSIVE has_tangled_lines2(_)
has_tangled_lines2(hunks) ==
    IF hunks = <<>>
    THEN Return(PyFalse)
    ELSE LET r == LinesBody2(Head(hunks))
         IN CASE r.kind = "return" -> Return(PyTrue)
              [] r.kind = "raise" -> Raise("IndexError")
              [] r.kind = "next" -> has_tangled_lines2(Tail(hunks))

RECURSIVE has_tangled_hunks(_)
has_tangled_hunks(hunks) ==
    IF hunks = <<>>
    THEN Return(PyFalse)
    ELSE LET r == HunksBody(Head(hunks))
         IN IF r.kind = "return"
            THEN Return(PyTrue)
            ELSE has_tangled_hunks(Tail(hunks))

\* tangle_func(Hunk.objects(file_action_id=fa.id), commit.revision_hash)
CallTangleFunc(func, hunks) ==
    CASE func = "has_tangled_hunks" -> has_tangled_hunks(hunks)
      [] func = "has_tangled_lines" -> has_tangled_lines(hunks)

(***************************************************************************)
(* Files.  File.objects(id=x).get() returns the file of that id and raises *)
(* DoesNotExist when there is none, as for id None.                        *)
(***************************************************************************)
FileIds == {"f1", "f2", "f3", "f4", "f5", "f6"}

Path(id) ==
    CASE id = "f1" -> "src/main/Foo.java"
      [] id = "f2" -> "src/test/FooTest.java"
      [] id = "f3" -> "src/main/FooTests.java"
      [] id = "f4" -> "src/testing/Foo.java"
      [] id = "f5" -> "README.md"
      [] id = "f6" -> "src/main/Bar.java"

FileGet(id) == IF id \in FileIds THEN Return(id) ELSE Raise("DoesNotExist")

\* str.endswith and the substring test `t in s`
EndsWith(s, t) == Len(s) >= Len(t) /\ SubSeq(s, Len(s) - Len(t) + 1, Len(s)) = t

Contains(s, t) == \E i \in 1..(Len(s) - Len(t) + 1) : SubSeq(s, i, i + Len(t) - 1) = t

is_java_file(path) == EndsWith(path, ".java")

is_test_file(path) ==
    \/ Contains(path, "test/")
    \/ Contains(path, "tests/")
    \/ EndsWith(path, "Test.java")
    \/ EndsWith(path, "Tests.java")

\* A variant that prefers the old file.
get_changed_file_old(f) ==
    IF Truthy(f.old_file_id) THEN FileGet(f.old_file_id) ELSE FileGet(f.file_id)

get_changed_file(f) ==
    IF Truthy(f.file_id) THEN FileGet(f.file_id) ELSE FileGet(f.old_file_id)

\* A variant without the `or fa.mode == "R"`.
changed_file2_no_mode(f) ==
    IF Truthy(f.old_file_id) THEN FileGet(f.old_file_id) ELSE FileGet(f.file_id)

\* list_tangled_lines.is_tangled, its own resolution of the changed file
changed_file2(f) ==
    LET old == IF Truthy(f.old_file_id) THEN FileGet(f.old_file_id) ELSE Return(None)
    IN IF old.kind = "raise"
       THEN old
       ELSE IF ~Truthy(old.value) \/ f.mode = "R"
            THEN FileGet(f.file_id)
            ELSE old

\* list_tangled_lines.is_tangled, its own file filter: TRUE when the file is skipped
skip_file2(path) ==
    \/ ~EndsWith(path, ".java")
    \/ EndsWith(path, "Test.java")
    \/ Contains(path, "src/test")

(***************************************************************************)
(* Commits and file actions.  commit.labels is None (<<>>) or a dict       *)
(* (<<d>>, d a set of <<key, value>> pairs).  The hunks of a file action   *)
(* are one of a few lists.                                                 *)
(***************************************************************************)
MaxParents == 2

LabelDicts ==
    {<<>>, <<{}>>, <<{<<"validated_bugfix", PyFalse>>}>>, <<{<<"validated_bugfix", PyTrue>>}>>}

Commits == [labels : LabelDicts, parents : {[k \in 1..m |-> "parent"] : m \in 0..MaxParents}]

HunkLists ==
    { <<>>,
      <<[content |-> "a\nb",
         lines_verified |-> <<<<"bugfix", <<0>>>>, <<"refactoring", <<1>>>>>>]>>,
      <<[content |-> "a\nb", lines_verified |-> <<<<"bugfix", <<0, 1>>>>>>],
        [content |-> "a\nb",
         lines_verified |-> <<<<"bugfix", <<0>>>>, <<"documentation", <<0>>>>>>]>>,
      <<[content |-> "a\n",
         lines_verified |-> <<<<"bugfix", <<1>>>>, <<"refactoring", <<1>>>>>>]>> }

Modes == {"A", "C", "D", "M", "R"}

\* Added and modified files have a new file only; a deleted file has one of
\* the two; renamed and copied files have both.
WellFormed(f) ==
    \/ f.mode \in {"A", "M"} /\ f.file_id # None /\ f.old_file_id = None
    \/ f.mode = "D" /\ ((f.file_id = None) # (f.old_file_id = None))
    \/ f.mode \in {"R", "C"} /\ f.file_id # None /\ f.old_file_id # None
                            /\ f.file_id # f.old_file_id

FileActions ==
    {f \in [file_id : FileIds \cup {None}, old_file_id : FileIds \cup {None},
            mode : Modes, hunks : HunkLists] : WellFormed(f)}

NoFileAction == [file_id |-> None, old_file_id |-> None, mode |-> "A", hunks |-> <<>>]

NoCommit == [labels |-> <<>>, parents |-> <<>>]

\* A variant that accepts merge commits (`len(commit.parents) >= 1`).
EligibleMerge(c) ==
    /\ c.labels # <<>>
    /\ \E kv \in c.labels[1] : kv[1] = "validated_bugfix" /\ Truthy(kv[2])
    /\ Len(c.parents) >= 1

\* The test of is_commit_tangled and of is_tangled (the same text in both).
Eligible(c) ==
    /\ c.labels # <<>>
    /\ \E kv \in c.labels[1] : kv[1] = "validated_bugfix"
    /\ \E kv \in c.labels[1] : kv[1] = "validated_bugfix" /\ Truthy(kv[2])
    /\ Len(c.parents) = 1

\* A variant that goes on to the next file action when the detector finds nothing.
FilterAndDetectAny(fileid, f, func) ==
    IF ~is_java_file(Path(fileid)) \/ is_test_file(Path(fileid))
    THEN [kind |-> "continue", value |-> None]
    ELSE IF CallTangleFunc(func, f.hunks) = Return(PyFalse)
         THEN [kind |-> "continue", value |-> None]
         ELSE CallTangleFunc(func, f.hunks)

\* is_commit_tangled, lines 129-132: the filter, then the detector.
FilterAndDetect(fileid, f, func) ==
    IF ~is_java_file(Path(fileid)) \/ is_test_file(Path(fileid))
    THEN [kind |-> "continue", value |-> None]
    ELSE CallTangleFunc(func, f.hunks)

\* is_tangled, lines 73-80.
FilterAndDetect2(fileid, f) ==
    IF skip_file2(Path(fileid))
    THEN [kind |-> "continue", value |-> None]
    ELSE has_tangled_lines2(f.hunks)

(***************************************************************************)
(* What the claims speak of, stated on the input alone.                    *)
(***************************************************************************)
\* The changed file of a file action: the new file, the old one when there is no new one.
ChangedFileId(f) == IF f.file_id # None THEN f.file_id ELSE f.old_file_id

InScope(f) ==
    /\ ChangedFileId(f) \in FileIds
    /\ EndsWith(Path(ChangedFileId(f)), ".java")
    /\ ~is_test_file(Path(ChangedFileId(f)))

\* Both scripts resolve the same file, and both keep it or both skip it.
ResolvedAlike(f) ==
    \/ f.old_file_id = None
    \/ f.file_id # None /\ f.mode = "R"
    \/ f.file_id = None /\ f.mode # "R"

FilteredAlike(f) ==
    ChangedFileId(f) \in FileIds =>
        LET path == Path(ChangedFileId(f))
        IN (~is_java_file(path) \/ is_test_file(path)) <=> skip_file2(path)

(***************************************************************************)
(* is_commit_tangled (list_tangled_commits.py) and is_tangled              *)
(* (list_tangled_lines.py) run on the same commit: the cursor over its     *)
(* file actions yields each file action to both.                           *)
(***************************************************************************)
Ended == {"returned", "raised"}

IdleDetector ==
    /\ hunk = NoHunk
    /\ report = NoReport
    /\ overlap = FALSE
    /\ mixed = FALSE
    /\ keys_seen = {}
    /\ owners0 = {}

IdleRun ==
    /\ entry = "none"
    /\ granularity = ""
    /\ connected = FALSE
    /\ accessed = FALSE
    /\ project = None
    /\ nprojects = 0
    /\ ncommits = 0
    /\ tangled_commits = <<>>
    /\ output = <<>>
    /\ enumerated = <<>>

IdleCommit ==
    /\ commit = NoCommit
    /\ fa = NoFileAction
    /\ file = None
    /\ pc2 = "idle"
    /\ file2 = None
    /\ result2 = None
    /\ scope_seen = FALSE
    /\ first_hunks = <<>>
    /\ agree = TRUE

InitCommit ==
    /\ commit \in Commits
    /\ tangle_func \in {"has_tangled_hunks", "has_tangled_lines"}
    /\ pc = "start"
    /\ pc2 = "start"
    /\ result = None
    /\ result2 = None
    /\ fa = NoFileAction
    /\ file = None
    /\ file2 = None
    /\ scope_seen = FALSE
    /\ first_hunks = <<>>
    /\ agree = TRUE
    /\ IdleDetector
    /\ IdleRun

unchangedDetector == <<tangle_func, hunk, report, overlap, mixed, keys_seen, owners0, varsRun>>

\* is_commit_tangled, lines 120-125 and 133-134
IsCommitTangledEnter ==
    /\ pc = "start"
    /\ IF Eligible(commit)
       THEN pc' = "loop" /\ result' = result
       ELSE pc' = "returned" /\ result' = PyFalse
    /\ UNCHANGED <<unchangedDetector, varsCommit>>

\* is_tangled, lines 55-60 and 81-82
IsTangledEnter ==
    /\ pc2 = "start"
    /\ IF Eligible(commit)
       THEN pc2' = "loop" /\ result2' = result2
       ELSE pc2' = "returned" /\ result2' = PyFalse
    /\ UNCHANGED <<pc, result, unchangedDetector, commit, fa, file, file2,
                   scope_seen, first_hunks, agree>>

AtLoopOrEnded == pc \in {"loop"} \cup Ended /\ pc2 \in {"loop"} \cup Ended

\* The cursor yields a file action; each function still in its loop resolves
\* the changed file (lines 126-127; lines 61-71).
NextFileAction ==
    /\ AtLoopOrEnded
    /\ pc = "loop" \/ pc2 = "loop"
    /\ \E f \in FileActions :
        /\ fa' = f
        /\ IF pc = "loop"
           THEN LET got == get_changed_file(f)
                IN IF got.kind = "raise"
                   THEN pc' = "raised" /\ file' = None
                   ELSE pc' = "filter" /\ file' = got.value
           ELSE pc' = pc /\ file' = file
        /\ IF pc2 = "loop"
           THEN LET got == changed_file2(f)
                IN IF got.kind = "raise"
                   THEN pc2' = "raised" /\ file2' = None
                   ELSE pc2' = "filter" /\ file2' = got.value
           ELSE pc2' = pc2 /\ file2' = file2
        /\ scope_seen' = (scope_seen \/ InScope(f))
        /\ first_hunks' = IF ~scope_seen /\ InScope(f) THEN f.hunks ELSE first_hunks
        /\ agree' = (agree /\ ResolvedAlike(f) /\ FilteredAlike(f))
    /\ UNCHANGED <<commit, result, result2, unchangedDetector>>

\* is_commit_tangled, lines 129-132.  The file action and the file are not
\* read again once every function has passed its filter.
IsCommitTangledFilter ==
    /\ pc = "filter"
    /\ LET r == FilterAndDetect(file, fa, tangle_func)
       IN /\ pc' = CASE r.kind = "continue" -> "loop"
                     [] r.kind = "return" -> "returned"
                     [] r.kind = "raise" -> "raised"
          /\ result' = IF r.kind = "return" THEN r.value ELSE result
    /\ file' = None
    /\ fa' = IF pc2 = "filter" THEN fa ELSE NoFileAction
    /\ UNCHANGED <<unchangedDetector, commit, pc2, file2, result2,
                   scope_seen, first_hunks, agree>>

\* is_tangled, lines 73-80
IsTangledFilter ==
    /\ pc2 = "filter"
    /\ LET r == FilterAndDetect2(file2, fa)
       IN /\ pc2' = CASE r.kind = "continue" -> "loop"
                      [] r.kind = "return" -> "returned"
                      [] r.kind = "raise" -> "raised"
          /\ result2' = IF r.kind = "return" THEN r.value ELSE result2
    /\ file2' = None
    /\ fa' = IF pc = "filter" THEN fa ELSE NoFileAction
    /\ UNCHANGED <<pc, result, unchangedDetector, commit, file,
                   scope_seen, first_hunks, agree>>

\* The cursor is exhausted: a function still in its loop leaves it and falls
\* off its end, returning None.
FileActionsExhausted ==
    /\ AtLoopOrEnded
    /\ pc = "loop" \/ pc2 = "loop"
    /\ pc' = IF pc = "loop" THEN "returned" ELSE pc
    /\ pc2' = IF pc2 = "loop" THEN "returned" ELSE pc2
    /\ fa' = NoFileAction
    /\ UNCHANGED <<result, result2, unchangedDetector, commit, file, file2,
                   scope_seen, first_hunks, agree>>

NextCommit ==
    \/ IsCommitTangledEnter
    \/ IsTangledEnter
    \/ NextFileAction
    \/ IsCommitTangledFilter
    \/ IsTangledFilter
    \/ FileActionsExhausted

SpecCommit == InitCommit /\ [][NextCommit]_vars

(***************************************************************************)
(* is_commit_tangled as a function of a commit whose file actions          *)
(* (FileAction.objects(commit_id=commit.id)) are the list                  *)
(* c.file_actions: the loop over get_changed_file and FilterAndDetect.     *)
(***************************************************************************)
RECURSIVE FileActionLoop(_, _)
FileActionLoop(fas, func) ==
    IF fas = <<>>
    THEN Return(None)
    ELSE LET got == get_changed_file(Head(fas))
         IN IF got.kind = "raise"
            THEN got
            ELSE LET r == FilterAndDetect(got.value, Head(fas), func)
                 IN IF r.kind = "continue"
                    THEN FileActionLoop(Tail(fas), func)
                    ELSE r

is_commit_tangled(c, func) ==
    IF Eligible(c) THEN FileActionLoop(c.file_actions, func) ELSE Return(PyFalse)

(***************************************************************************)
(* The run: main and find_tangled_commits of list_tangled_commits.py.      *)
(* The dataset's cursors yield projects and commits one at a time; the     *)
(* commits are a few commits of different kinds.                           *)
(***************************************************************************)
MaxProjects == 2
MaxCommits == 3

BugFix == <<{<<"validated_bugfix", PyTrue>>}>>

SourceFile(hs) == [file_id |-> "f1", old_file_id |-> None, mode |-> "M", hunks |-> hs]
TestFile(hs) == [file_id |-> "f2", old_file_id |-> None, mode |-> "M", hunks |-> hs]

RunCommits ==
    {[labels |-> ls, parents |-> <<"parent">>, file_actions |-> <<f>>] :
        ls \in {<<>>, BugFix}, f \in {SourceFile(hs) : hs \in HunkLists}}
    \cup {[labels |-> BugFix, parents |-> <<"parent">>, file_actions |-> <<TestFile(hs)>>] :
            hs \in HunkLists}
    \cup {[labels |-> BugFix, parents |-> <<"parent">>,
           file_actions |-> <<TestFile(hs), SourceFile(hs)>>] : hs \in HunkLists}

Granularities == {"hunk", "line", "file"}

\* argparse's choices=["hunk", "line"]
ArgumentAccepted(g) == g \in {"hunk", "line"}

\* A variant that falls back to the line detector (a final `else:` in place of
\* `elif tangle_granularity == "line":`).
SelectTangleFuncElse(g) ==
    IF g = "hunk" THEN Return("has_tangled_hunks") ELSE Return("has_tangled_lines")

\* find_tangled_commits, lines 144-150
SelectTangleFunc(g) ==
    IF g = "hunk"
    THEN Return("has_tangled_hunks")
    ELSE IF g = "line"
         THEN Return("has_tangled_lines")
         ELSE Raise("ValueError")

\* A variant that lists every commit whose result is not False.
ListedUnlessFalse(r) == r.value # PyFalse

\* `if is_commit_tangled(commit, tangle_func):`
Listed(r) == Truthy(r.value)

\* f"{project} {commit_hash}"
FormatLine(pair) == pair[1] \o " " \o pair[2]

InitRun ==
    /\ entry \in {"main", "find_tangled_commits"}
    /\ granularity \in Granularities
    /\ pc = entry
    /\ tangle_func = None
    /\ result = None
    /\ connected = FALSE
    /\ accessed = FALSE
    /\ project = None
    /\ nprojects = 0
    /\ ncommits = 0
    /\ tangled_commits = <<>>
    /\ output = <<>>
    /\ enumerated = <<>>
    /\ IdleDetector
    /\ IdleCommit

unchangedRun == <<hunk, report, overlap, mixed, keys_seen, owners0, varsCommit,
                  entry, granularity>>

\* main, lines 169-182: parse_args() exits with status 2 on an argument that
\* is not one of the choices; otherwise find_tangled_commits is called.
MainParseArgs ==
    /\ pc = "main"
    /\ pc' = IF ArgumentAccepted(granularity) THEN "find_tangled_commits" ELSE "exited"
    /\ UNCHANGED <<unchangedRun, tangle_func, result, connected, accessed, project,
                   nprojects, ncommits, tangled_commits, output, enumerated>>

\* find_tangled_commits, lines 144-154
FindTangledCommitsStart ==
    /\ pc = "find_tangled_commits"
    /\ LET r == SelectTangleFunc(granularity)
       IN IF r.kind = "raise"
          THEN /\ pc' = "raised"
               /\ UNCHANGED <<tangle_func, connected>>
          ELSE /\ pc' = "projects"
               /\ tangle_func' = r.value
               /\ connected' = TRUE
    /\ UNCHANGED <<unchangedRun, result, accessed, project, nprojects, ncommits,
                   tangled_commits, output, enumerated>>

\* lines 155-156: the next project and its VCS system
NextProject ==
    /\ pc = "projects"
    /\ nprojects < MaxProjects
    /\ nprojects' = nprojects + 1
    /\ project' = "p" \o ToString(nprojects + 1)
    /\ accessed' = TRUE
    /\ pc' = "commits"
    /\ UNCHANGED <<unchangedRun, tangle_func, result, connected, ncommits,
                   tangled_commits, output, enumerated>>

\* lines 157-159: the next commit of the project
NextCommitOfProject ==
    /\ pc = "commits"
    /\ ncommits < MaxCommits
    /\ \E c \in RunCommits :
        LET r == is_commit_tangled(c, tangle_func)
            revision_hash == "c" \o ToString(ncommits + 1)
        IN /\ ncommits' = ncommits + 1
           /\ accessed' = TRUE
           /\ enumerated' = Append(enumerated, [project |-> project,
                                                revision_hash |-> revision_hash,
                                                outcome |-> r])
           /\ IF r.kind = "raise"
              THEN pc' = "raised" /\ UNCHANGED tangled_commits
              ELSE /\ pc' = "commits"
                   /\ tangled_commits' = IF Listed(r)
                                         THEN Append(tangled_commits, <<project, revision_hash>>)
                                         ELSE tangled_commits
    /\ UNCHANGED <<unchangedRun, tangle_func, result, connected, project, nprojects, output>>

\* the commits of the project are exhausted
CommitsExhausted ==
    /\ pc = "commits"
    /\ pc' = "projects"
    /\ UNCHANGED <<unchangedRun, tangle_func, result, connected, accessed, project,
                   nprojects, ncommits, tangled_commits, output, enumerated>>

\* the projects are exhausted: line 161
FindTangledCommitsReturn ==
    /\ pc = "projects"
    /\ pc' = "returned"
    /\ result' = tangled_commits
    /\ UNCHANGED <<unchangedRun, tangle_func, connected, accessed, project,
                   nprojects, ncommits, tangled_commits, output, enumerated>>

\* main, lines 184-185
MainPrint ==
    /\ pc = "returned"
    /\ entry = "main"
    /\ output' = [k \in 1..Len(result) |-> FormatLine(result[k])]
    /\ pc' = "done"
    /\ UNCHANGED <<unchangedRun, tangle_func, result, connected, accessed, project,
                   nprojects, ncommits, tangled_commits, enumerated>>

NextRun ==
    \/ MainParseArgs
    \/ FindTangledCommitsStart
    \/ NextProject
    \/ NextCommitOfProject
    \/ CommitsExhausted
    \/ FindTangledCommitsReturn
    \/ MainPrint

SpecRun == InitRun /\ [][NextRun]_vars

(***************************************************************************)
(* The detectors, run one iteration of `for hunk in hunks` at a time: the  *)
(* hunks come from a database cursor, one per iteration, and the cursor    *)
(* may hold any number of them.  A hunk scanned without ending the         *)
(* function is not read again; the history variables keep what the claims  *)
(* need of it.                                                             *)
(***************************************************************************)
Detectors == {"has_tangled_hunks", "has_tangled_lines", "lines.has_tangled_lines"}

InitDetector ==
    /\ tangle_func \in Detectors
    /\ pc = "loop"
    /\ hunk = NoHunk
    /\ result = None
    /\ report = NoReport
    /\ overlap = FALSE
    /\ mixed = FALSE
    /\ keys_seen = {}
    /\ owners0 = {}
    /\ IdleCommit
    /\ IdleRun

LinesStep(h, r) ==
    /\ hunk' = IF r.kind = "next" THEN NoHunk ELSE h
    /\ report' = r.report
    /\ pc' = CASE r.kind = "next" -> "loop"
               [] r.kind = "return" -> "returned"
               [] r.kind = "raise" -> "raised"
    /\ result' = IF r.kind = "return" THEN PyTrue ELSE result
    /\ overlap' = (overlap \/ Overlapping(h.lines_verified))
    /\ owners0' = owners0 \cup {a \in Keys(h.lines_verified) :
                                    0 \in ListedUnder(h.lines_verified, a)}
    /\ UNCHANGED <<tangle_func, mixed, keys_seen, varsCommit, varsRun>>

HasTangledLinesIterate ==
    /\ tangle_func = "has_tangled_lines"
    /\ pc = "loop"
    /\ \E h \in Hunks : LinesStep(h, LinesBody(h))

HasTangledLines2Iterate ==
    /\ tangle_func = "lines.has_tangled_lines"
    /\ pc = "loop"
    /\ \E h \in Hunks : LinesStep(h, LinesBody2(h))

HasTangledHunksIterate ==
    /\ tangle_func = "has_tangled_hunks"
    /\ pc = "loop"
    /\ \E h \in Hunks :
        LET r == HunksBody(h)
        IN /\ hunk' = IF r.kind = "next" THEN NoHunk ELSE h
           /\ pc' = IF r.kind = "return" THEN "returned" ELSE "loop"
           /\ result' = IF r.kind = "return" THEN PyTrue ELSE result
           /\ mixed' = (mixed \/ Mixed(h.lines_verified))
           /\ keys_seen' = keys_seen \cup Keys(h.lines_verified)
           /\ UNCHANGED <<tangle_func, report, overlap, owners0, varsCommit, varsRun>>

\* The cursor is exhausted: the loop ends and the function returns False.
ReturnFalse ==
    /\ pc = "loop"
    /\ pc' = "returned"
    /\ result' = PyFalse
    /\ UNCHANGED <<tangle_func, hunk, report, overlap, mixed, keys_seen, owners0, varsCommit, varsRun>>

NextDetector ==
    \/ HasTangledLinesIterate
    \/ HasTangledLines2Iterate
    \/ HasTangledHunksIterate
    \/ ReturnFalse

SpecDetector == InitDetector /\ [][NextDetector]_vars

(***************************************************************************)
(* Claims about the detectors (SpecDetector).                              *)
(***************************************************************************)
LineDetectors == {"has_tangled_lines", "lines.has_tangled_lines"}

\* C2: has_tangled_hunks returns True iff some single hunk has, among the keys
\* of its lines_verified, a CODE_FIX label and a CODE_NO_FIX label, whatever
\* the offsets and the other labels; labels of different hunks do not add up.
C2_HunkTangledIff ==
    tangle_func = "has_tangled_hunks" =>
        /\ mixed <=> (pc = "returned" /\ result = PyTrue)
        /\ pc = "returned" => result \in {PyTrue, PyFalse}
        /\ pc # "raised"

\* A fix label in one hunk, a no-fix label in another, a non-code label too:
\* has_tangled_hunks has returned False.
C2_Witness ==
    /\ tangle_func = "has_tangled_hunks"
    /\ pc = "returned"
    /\ result = PyFalse
    /\ keys_seen \cap LINE_LABELS_CODE_FIX # {}
    /\ keys_seen \cap LINE_LABELS_CODE_NO_FIX # {}
    /\ keys_seen \ LINE_LABELS_CODE # {}

\* C3: when two different labels of one hunk list the same offset,
\* has_tangled_lines returns True, and the two labels it reports are different
\* labels that both list the offset it reports.
C3_OverlapReturnsTrue ==
    (tangle_func = "has_tangled_lines" /\ overlap) =>
        /\ pc = "returned"
        /\ result = PyTrue
        /\ report.first # report.second
        /\ report.offset \in ListedUnder(hunk.lines_verified, report.first)
        /\ report.offset \in ListedUnder(hunk.lines_verified, report.second)

\* C4: has_tangled_lines (of either script) returns False when, in every hunk,
\* the offsets listed under different labels are pairwise disjoint: ownership
\* of a line is per hunk.
C4_DisjointReturnsFalse ==
    (tangle_func \in LineDetectors /\ ~overlap) =>
        /\ pc # "raised"
        /\ pc = "returned" => result = PyFalse

\* has_tangled_lines has returned False although offset 0 was listed under two
\* labels, in different hunks.
C4_Witness ==
    /\ tangle_func = "has_tangled_lines"
    /\ pc = "returned"
    /\ result = PyFalse
    /\ ~overlap
    /\ Cardinality(owners0) >= 2

\* C9: an offset at or beyond the number of lines of the hunk's content never
\* makes has_tangled_lines end in an error.
C9_NeverAborts ==
    tangle_func = "has_tangled_lines" => pc # "raised"

(***************************************************************************)
(* Claims about is_commit_tangled and is_tangled (SpecCommit).             *)
(***************************************************************************)
\* C1: for an eligible commit, is_commit_tangled ends as the detector does on
\* the hunks of the first file action whose changed file is in scope: while it
\* is still looping no such file action has been yielded, and once it has
\* ended on one, its result is the detector's on that one.
C1_FirstInScopeDecides ==
    Eligible(commit) =>
        /\ pc = "loop" => ~scope_seen
        /\ (pc = "filter" /\ scope_seen) => (InScope(fa) /\ fa.hunks = first_hunks)
        /\ (pc \in Ended /\ scope_seen) =>
              LET expected == CallTangleFunc(tangle_func, first_hunks)
              IN /\ expected.kind = "return" => (pc = "returned" /\ result = expected.value)
                 /\ expected.kind = "raise" => pc = "raised"

\* is_commit_tangled has returned False on the first in-scope file action, and
\* the cursor has since yielded an in-scope file action whose hunks have a
\* tangled line.
C1_Witness ==
    /\ Eligible(commit)
    /\ tangle_func = "has_tangled_lines"
    /\ pc = "returned"
    /\ result = PyFalse
    /\ scope_seen
    /\ InScope(fa)
    /\ fa.hunks # first_hunks
    /\ has_tangled_lines(fa.hunks) = Return(PyTrue)

\* C5: for a commit whose labels are None, lack validated_bugfix or hold it
\* false, or whose parents are not exactly one, is_commit_tangled and
\* is_tangled return False without fetching a file action.
C5_IneligibleReturnsFalse ==
    (\/ commit.labels = <<>>
     \/ \A kv \in commit.labels[1] : kv[1] # "validated_bugfix"
     \/ \E kv \in commit.labels[1] : kv[1] = "validated_bugfix" /\ ~Truthy(kv[2])
     \/ Len(commit.parents) # 1) =>
        /\ pc \in {"start", "returned"}
        /\ pc2 \in {"start", "returned"}
        /\ pc = "returned" => result = PyFalse
        /\ pc2 = "returned" => result2 = PyFalse
        /\ fa = NoFileAction

\* A validated bug fix with two parents: both functions have returned False.
C5_Witness ==
    /\ commit.labels = <<{<<"validated_bugfix", PyTrue>>}>>
    /\ Len(commit.parents) = 2
    /\ pc = "returned"
    /\ result = PyFalse
    /\ pc2 = "returned"
    /\ result2 = PyFalse

\* C8 as stated: with both ids present the changed file is the new file in both
\* scripts, and the old file is resolved only when file_id is absent.
C8_NewFileInBothScripts ==
    /\ (pc = "filter" /\ fa.file_id # None) => file = fa.file_id
    /\ (pc2 = "filter" /\ fa.file_id # None) => file2 = fa.file_id

\* C8 as amended: get_changed_file returns the new file whenever file_id is
\* present and the old file only when it is absent; is_tangled resolves the
\* old file whenever old_file_id is present and the mode is not "R", and the
\* new file otherwise.
C8_ChangedFileResolved ==
    /\ pc = "filter" =>
          file = IF fa.file_id # None THEN fa.file_id ELSE fa.old_file_id
    /\ pc2 = "filter" =>
          file2 = IF fa.old_file_id # None /\ fa.mode # "R"
                  THEN fa.old_file_id
                  ELSE fa.file_id

\* A rename from A to B: both functions hold the new file B.
C8_Witness ==
    /\ fa.mode = "R"
    /\ fa.old_file_id = "f1"
    /\ fa.file_id = "f6"
    /\ pc = "filter"
    /\ file = "f6"
    /\ pc2 = "filter"
    /\ file2 = "f6"

\* C10 as stated: on every commit is_tangled ends as is_commit_tangled with
\* has_tangled_lines does, so that both scripts list the same commits (a commit
\* is listed when the result returned is truthy).
C10_ScriptsAgree ==
    (tangle_func = "has_tangled_lines" /\ pc = "returned" /\ pc2 = "returned") =>
        Truthy(result) = Truthy(result2)

\* C10 as amended: they end alike on a commit each of whose file actions both
\* scripts resolve to the same file and classify alike.
C10_ScriptsAgreeWhenAlike ==
    (tangle_func = "has_tangled_lines" /\ pc \in Ended /\ pc2 \in Ended /\ agree) =>
        (pc = pc2 /\ result = result2)

\* Both have returned True on an in-scope file action of an eligible commit.
C10_Witness ==
    /\ tangle_func = "has_tangled_lines"
    /\ agree
    /\ scope_seen
    /\ pc = "returned"
    /\ result = PyTrue
    /\ pc2 = "returned"
    /\ result2 = PyTrue

(***************************************************************************)
(* Claims about find_tangled_commits and main (SpecRun).                   *)
(***************************************************************************)
FoundTangled(e) == e.outcome.kind = "return" /\ e.outcome.value = PyTrue

TangledPairs(es) ==
    LET found == SelectSeq(es, FoundTangled)
    IN [k \in 1..Len(found) |-> <<found[k].project, found[k].revision_hash>>]

\* C6: the list find_tangled_commits builds and returns holds, in enumeration
\* order and once each, exactly the (project name, revision hash) pairs of the
\* commits yielded so far for which is_commit_tangled returned True; a commit
\* for which it returned None is not listed.  main prints one line per pair.
C6_ListsTangledInOrder ==
    /\ tangled_commits = TangledPairs(enumerated)
    /\ pc \in {"returned", "done"} => result = tangled_commits
    /\ pc = "done" =>
         output = [k \in 1..Len(tangled_commits) |->
                      tangled_commits[k][1] \o " " \o tangled_commits[k][2]]

\* find_tangled_commits has returned two pairs of different projects after a
\* commit without a file action in scope was yielded.
C6_Witness ==
    /\ pc = "returned"
    /\ Len(result) = 2
    /\ result[1][1] # result[2][1]
    /\ \E k \in 1..Len(enumerated) :
          enumerated[k].outcome = Return(None) /\ k < Len(enumerated)

\* C7: with a granularity other than "hunk" and "line" the run is at its start
\* or has ended in an error, connect_to_db was not called, nothing was queried
\* and no pair was listed or printed.
C7_BadGranularityFailsFirst ==
    (entry # "none" /\ granularity \notin {"hunk", "line"}) =>
        /\ pc \in {"main", "find_tangled_commits", "exited", "raised"}
        /\ ~connected
        /\ ~accessed
        /\ enumerated = <<>>
        /\ tangled_commits = <<>>
        /\ output = <<>>

\* find_tangled_commits, called directly, has raised ValueError.
C7_Witness ==
    /\ entry = "find_tangled_commits"
    /\ granularity = "file"
    /\ pc = "raised"
    /\ ~connected

====
